---- MODULE Spec2Model ----
(***************************************************************************)
(* A model of exile-gem-profit (src/src/main.py): the quality classifier   *)
(* gem_quality_type, the aggregation loop go_over_elements with            *)
(* create_gem_object, and the report stage save_data.                      *)
(*                                                                         *)
(* Python strings are TLA+ strings (Len, SubSeq and \o work on them).      *)
(* An attribute that may be None is a sequence of length at most one:      *)
(* <<>> is None and <<p>> is the number p.                                 *)
(***************************************************************************)
EXTENDS Integers, Sequences, FiniteSets, TLC

VARIABLES
    dictionary,   \* gems.Gem.dictionary: the entries [key, obj] in insertion order
    allocs,       \* number of Gem objects constructed so far (object identity)
    pc,           \* "idle" | "loop" (inside go_over_elements) | "done" (after save_data)
    returned,     \* TRUE once go_over_elements has returned the mapping
    saved,        \* "no" | "written" | "ValueError": outcome of save_data
    corrupt,      \* rows of output/gems_to_corrupt.csv
    level,        \* rows of output/gems_to_level.csv
    hist,         \* history: the raw records processed so far, in input order
    callStart,    \* history: Len(hist) when the current/latest call started
    name,         \* classifier run: the input name
    quality,      \* classifier run: result of gem_quality_type(name)
    key,          \* classifier run: the aggregation key derived from name
    cpc           \* classifier run: "start" | "classified" | "done"

aggVars == <<dictionary, allocs, pc, returned, saved, corrupt, level, hist, callStart>>
nameVars == <<name, quality, key, cpc>>
vars == <<dictionary, allocs, pc, returned, saved, corrupt, level, hist, callStart,
          name, quality, key, cpc>>

(***************************************************************************)
(* Bounds and input sets                                                   *)
(***************************************************************************)
MaxRecords == 2
MaxFragments == 3

Prices == {5, 20}
ListingCounts == {3}
GemNames == {"Haste", "Vaal Haste", "Awakened Haste", "Anomalous Haste"}
Variants == {"1/20", "1", "20/20", "20/20c", "5/20c", "21/20c", "6/20c", "19/20"}

\* A raw record of data["lines"], with or without the optional listingCount.
RawRecords ==
    [name : GemNames, variant : Variants, chaosValue : Prices, listingCount : ListingCounts]
    \cup [name : GemNames, variant : Variants, chaosValue : Prices]

Fragments == {"Vaal", "Vaal ", " ", "Awakened ", "Anomalous ", "Divergent ",
              "Phantasmal ", "Haste", "Va", "al "}

RECURSIVE NamesUpTo(_)
NamesUpTo(n) ==
    IF n = 0 THEN {""}
    ELSE LET shorter == NamesUpTo(n - 1)
         IN  shorter \cup {f \o s : f \in Fragments, s \in shorter}

NameInputs == NamesUpTo(MaxFragments)

(***************************************************************************)
(* Python string operations                                                *)
(***************************************************************************)
\* sub in s
Contains(s, sub) ==
    \E i \in 1..(Len(s) - Len(sub) + 1) : SubSeq(s, i, i + Len(sub) - 1) = sub

\* s.startswith(sub)
StartsWith(s, sub) == Len(s) >= Len(sub) /\ SubSeq(s, 1, Len(sub)) = sub

\* s.replace(old, new, 1): only the first occurrence
RECURSIVE ReplaceFirst(_, _, _)
ReplaceFirst(s, old, new) ==
    IF Len(s) < Len(old) THEN s
    ELSE IF SubSeq(s, 1, Len(old)) = old
         THEN new \o SubSeq(s, Len(old) + 1, Len(s))
         ELSE SubSeq(s, 1, 1) \o ReplaceFirst(SubSeq(s, 2, Len(s)), old, new)

\* s.replace(old, new): every non-overlapping occurrence, scanning left to right
RECURSIVE Replace(_, _, _)
Replace(s, old, new) ==
    IF Len(s) < Len(old) THEN s
    ELSE IF SubSeq(s, 1, Len(old)) = old
         THEN new \o Replace(SubSeq(s, Len(old) + 1, Len(s)), old, new)
         ELSE SubSeq(s, 1, 1) \o Replace(SubSeq(s, 2, Len(s)), old, new)

(***************************************************************************)
(* gem_quality_type                                                        *)
(***************************************************************************)
quality_types_awakened_first ==
    << <<"Vaal", <<"Vaal">> >>,
       <<"Awakened", <<"Awakened">> >>,
       <<"Alternative", <<"Anomalous", "Divergent", "Phantasmal">> >> >>

\* The dict literal, in its insertion (= iteration) order.
quality_types ==
    << <<"Vaal", <<"Vaal">> >>,
       <<"Alternative", <<"Anomalous", "Divergent", "Phantasmal">> >>,
       <<"Awakened", <<"Awakened">> >> >>

\* The nested for loops, from quality q and prefix p on.
RECURSIVE MatchFrom(_, _, _)
MatchFrom(n, q, p) ==
    IF q > Len(quality_types) THEN "Basic"
    ELSE IF p > Len(quality_types[q][2]) THEN MatchFrom(n, q + 1, 1)
    ELSE IF Contains(n, quality_types[q][2][p]) THEN quality_types[q][1]
    ELSE MatchFrom(n, q, p + 1)

RECURSIVE MatchPrefixFrom(_, _, _)
MatchPrefixFrom(n, q, p) ==
    IF q > Len(quality_types) THEN "Basic"
    ELSE IF p > Len(quality_types[q][2]) THEN MatchPrefixFrom(n, q + 1, 1)
    ELSE IF StartsWith(n, quality_types[q][2][p]) THEN quality_types[q][1]
    ELSE MatchPrefixFrom(n, q, p + 1)

gem_quality_type_startswith(n) == MatchPrefixFrom(n, 1, 1)

gem_quality_type(n) == MatchFrom(n, 1, 1)

(***************************************************************************)
(* go_over_elements: the per-record preparation                            *)
(***************************************************************************)
ListedDefaultOne(gem) ==
    IF "listingCount" \in DOMAIN gem THEN gem.listingCount ELSE 1

\* try: listed = gem["listingCount"]  except KeyError: listed = 0
Listed(gem) ==
    IF "listingCount" \in DOMAIN gem THEN gem.listingCount ELSE 0

NormalizedNameFirstOnly(gem_name, q) ==
    IF q = "Vaal" THEN ReplaceFirst(gem_name, "Vaal ", "") ELSE gem_name

NormalizedNameKeepVaal(gem_name, q) == gem_name

\* if quality == "Vaal": gem_name = gem_name.replace("Vaal ", "")
NormalizedName(gem_name, q) ==
    IF q = "Vaal" THEN Replace(gem_name, "Vaal ", "") ELSE gem_name

(***************************************************************************)
(* gems.Gem and its class-level registry                                   *)
(***************************************************************************)
None == <<>>

\* gems.Gem(gem_name): a fresh object, every price None and every count 0.
Gem(gem_name, oid) ==
    [name |-> gem_name, base_price |-> None, fail_price |-> None,
     success_price |-> None, listed_21_20 |-> 0, vaal_price |-> None,
     leveled_price |-> None, listed_leveled |-> 0, oid |-> oid]

Keys(d) == {d[i].key : i \in DOMAIN d}

\* gem_name in dictionary
Has(d, gem_name) == gem_name \in Keys(d)

IndexOf(d, gem_name) == CHOOSE i \in DOMAIN d : d[i].key = gem_name

\* dictionary[gem_name]
Get(d, gem_name) == d[IndexOf(d, gem_name)].obj

\* dictionary[gem_name] = obj: a new key goes last, an existing key keeps its place
Put(d, gem_name, obj) ==
    IF Has(d, gem_name)
    THEN [d EXCEPT ![IndexOf(d, gem_name)] = [key |-> gem_name, obj |-> obj]]
    ELSE Append(d, [key |-> gem_name, obj |-> obj])

(***************************************************************************)
(* create_gem_object                                                       *)
(***************************************************************************)
WithGemAlwaysNew(d, gem_name, oid) == Put(d, gem_name, Gem(gem_name, oid))

WithGemNoCreate(d, gem_name, oid) == d

\* if gem_name not in dictionary: dictionary[gem_name] = gems.Gem(gem_name)
WithGem(d, gem_name, oid) ==
    IF ~Has(d, gem_name) THEN Put(d, gem_name, Gem(gem_name, oid)) ELSE d

\* The if/elif cascade with "20/20c" setting fail_price whatever the quality.
UpdateGemFailIgnoresQuality(obj, variant, price, q, listed) ==
    LET is_basic_1_20 == variant = "1/20" /\ q = "Basic"
        is_alternative_1 == variant = "1" /\ q = "Alternative"
        is_awakened_1 == variant = "1" /\ q = "Awakened"
        is_leveled_20_20 == variant = "20/20"
        is_not_vaal_20_20c == variant = "20/20c"
        is_awakened_5_20c == variant = "5/20c" /\ q = "Awakened"
        is_vaal_20_20c == variant = "20/20c" /\ q = "Vaal"
        is_not_vaal_21_20c == variant = "21/20c" /\ q # "Vaal"
        is_awakened_6_20c == variant = "6/20c" /\ q = "Awakened"
    IN  IF is_basic_1_20 \/ is_alternative_1 \/ is_awakened_1
        THEN [obj EXCEPT !.base_price = <<price>>]
        ELSE IF is_leveled_20_20
        THEN [obj EXCEPT !.leveled_price = <<price>>, !.listed_leveled = listed]
        ELSE IF is_not_vaal_20_20c \/ is_awakened_5_20c
        THEN [obj EXCEPT !.fail_price = <<price>>]
        ELSE IF is_vaal_20_20c
        THEN [obj EXCEPT !.vaal_price = <<price>>]
        ELSE IF is_not_vaal_21_20c \/ is_awakened_6_20c
        THEN [obj EXCEPT !.success_price = <<price>>, !.listed_21_20 = listed]
        ELSE obj

\* The if/elif cascade with "1/20" setting base_price whatever the quality.
UpdateGemBaseIgnoresQuality(obj, variant, price, q, listed) ==
    LET is_basic_1_20 == variant = "1/20"
        is_alternative_1 == variant = "1" /\ q = "Alternative"
        is_awakened_1 == variant = "1" /\ q = "Awakened"
        is_leveled_20_20 == variant = "20/20"
        is_not_vaal_20_20c == variant = "20/20c" /\ q # "Vaal"
        is_awakened_5_20c == variant = "5/20c" /\ q = "Awakened"
        is_vaal_20_20c == variant = "20/20c" /\ q = "Vaal"
        is_not_vaal_21_20c == variant = "21/20c" /\ q # "Vaal"
        is_awakened_6_20c == variant = "6/20c" /\ q = "Awakened"
    IN  IF is_basic_1_20 \/ is_alternative_1 \/ is_awakened_1
        THEN [obj EXCEPT !.base_price = <<price>>]
        ELSE IF is_leveled_20_20
        THEN [obj EXCEPT !.leveled_price = <<price>>, !.listed_leveled = listed]
        ELSE IF is_not_vaal_20_20c \/ is_awakened_5_20c
        THEN [obj EXCEPT !.fail_price = <<price>>]
        ELSE IF is_vaal_20_20c
        THEN [obj EXCEPT !.vaal_price = <<price>>]
        ELSE IF is_not_vaal_21_20c \/ is_awakened_6_20c
        THEN [obj EXCEPT !.success_price = <<price>>, !.listed_21_20 = listed]
        ELSE obj

\* The flags and the if/elif cascade that updates the attributes of obj.
UpdateGem(obj, variant, price, q, listed) ==
    LET is_basic_1_20 == variant = "1/20" /\ q = "Basic"
        is_alternative_1 == variant = "1" /\ q = "Alternative"
        is_awakened_1 == variant = "1" /\ q = "Awakened"
        is_leveled_20_20 == variant = "20/20"
        is_not_vaal_20_20c == variant = "20/20c" /\ q # "Vaal"
        is_awakened_5_20c == variant = "5/20c" /\ q = "Awakened"
        is_vaal_20_20c == variant = "20/20c" /\ q = "Vaal"
        is_not_vaal_21_20c == variant = "21/20c" /\ q # "Vaal"
        is_awakened_6_20c == variant = "6/20c" /\ q = "Awakened"
    IN  IF is_basic_1_20 \/ is_alternative_1 \/ is_awakened_1
        THEN [obj EXCEPT !.base_price = <<price>>]
        ELSE IF is_leveled_20_20
        THEN [obj EXCEPT !.leveled_price = <<price>>, !.listed_leveled = listed]
        ELSE IF is_not_vaal_20_20c \/ is_awakened_5_20c
        THEN [obj EXCEPT !.fail_price = <<price>>]
        ELSE IF is_vaal_20_20c
        THEN [obj EXCEPT !.vaal_price = <<price>>]
        ELSE IF is_not_vaal_21_20c \/ is_awakened_6_20c
        THEN [obj EXCEPT !.success_price = <<price>>, !.listed_21_20 = listed]
        ELSE obj

\* create_gem_object(gem_name, variant, price, quality, listed) on registry d;
\* oid is the identity a newly constructed Gem gets.
create_gem_object(d, gem_name, variant, price, q, listed, oid) ==
    LET d1 == WithGem(d, gem_name, oid)
    IN  IF Has(d1, gem_name)
        THEN Put(d1, gem_name, UpdateGem(Get(d1, gem_name), variant, price, q, listed))
        ELSE d1

MaxOid(d) ==
    IF d = <<>> THEN 0
    ELSE CHOOSE m \in {d[i].obj.oid : i \in DOMAIN d} :
             \A i \in DOMAIN d : d[i].obj.oid <= m

(***************************************************************************)
(* go_over_elements                                                        *)
(***************************************************************************)
\* A call of go_over_elements(data) enters its loop over data["lines"].
GoOverElementsStart ==
    /\ pc = "idle"
    /\ pc' = "loop"
    /\ callStart' = Len(hist)
    /\ UNCHANGED <<dictionary, allocs, returned, saved, corrupt, level, hist>>
    /\ UNCHANGED nameVars

\* One iteration of the loop, create_gem_object included, on the next record.
ProcessRecord ==
    /\ pc = "loop"
    /\ Len(hist) < MaxRecords
    /\ \E gem \in RawRecords :
         LET variant == gem.variant
             price == gem.chaosValue
             listed == Listed(gem)
             q == gem_quality_type(gem.name)
             gem_name == NormalizedName(gem.name, q)
             d == create_gem_object(dictionary, gem_name, variant, price, q,
                                    listed, allocs + 1)
         IN  /\ dictionary' = d
             /\ allocs' = IF MaxOid(d) > allocs THEN MaxOid(d) ELSE allocs
             /\ hist' = Append(hist, gem)
    /\ UNCHANGED <<pc, returned, saved, corrupt, level, callStart>>
    /\ UNCHANGED nameVars

\* The loop is over: return gems.Gem.dictionary.
GoOverElementsReturn ==
    /\ pc = "loop"
    /\ pc' = "idle"
    /\ returned' = TRUE
    /\ UNCHANGED <<dictionary, allocs, saved, corrupt, level, hist, callStart>>
    /\ UNCHANGED nameVars

(***************************************************************************)
(* save_data                                                               *)
(***************************************************************************)
CorruptColumns ==
    <<"Gem Name", "Buy price", "Corrupted 20/20", "Success 21/20", "Listed 21/20",
      "Vaal price">>

LevelColumns == <<"Gem Name", "Buy price", "Leveled 20/20", "Listed L20/20">>

\* One row of the DataFrame: the eight attributes of a Gem under the column
\* names assigned to them.
Row(obj) ==
    ("Gem Name" :> obj.name) @@ ("Buy price" :> obj.base_price) @@
    ("Corrupted 20/20" :> obj.fail_price) @@ ("Success 21/20" :> obj.success_price) @@
    ("Listed 21/20" :> obj.listed_21_20) @@ ("Vaal price" :> obj.vaal_price) @@
    ("Leveled 20/20" :> obj.leveled_price) @@ ("Listed L20/20" :> obj.listed_leveled)

\* pd.DataFrame.from_dict(dict, orient="index"): one row per value, in key order.
DataFrame(d) == [i \in DOMAIN d |-> Row(d[i].obj)]

\* df[[columns]]
Project(df, columns) ==
    [i \in DOMAIN df |-> [c \in {columns[j] : j \in DOMAIN columns} |-> df[i][c]]]

RECURSIVE InsertDesc(_, _, _)
InsertDesc(r, s, col) ==
    IF s = <<>> THEN <<r>>
    ELSE IF r[col][1] >= Head(s)[col][1] THEN <<r>> \o s
    ELSE <<Head(s)>> \o InsertDesc(r, Tail(s), col)

RECURSIVE SortDesc(_, _)
SortDesc(rows, col) ==
    IF rows = <<>> THEN <<>>
    ELSE InsertDesc(Head(rows), SortDesc(Tail(rows), col), col)

\* df.sort_values(col, ascending=False): the rows with a value in descending
\* order, then the rows whose value is missing (na_position="last").
SortValues(df, col) ==
    SortDesc(SelectSeq(df, LAMBDA r : r[col] # None), col)
        \o SelectSeq(df, LAMBDA r : r[col] = None)

\* save_data(gems_dict) on the mapping go_over_elements returned. Assigning
\* the eight column names to the frame of an empty mapping, which has no
\* columns, raises ValueError (length mismatch) before anything is written.
SaveData ==
    /\ pc = "idle"
    /\ returned
    /\ pc' = "done"
    /\ LET df == DataFrame(dictionary)
       IN  IF Len(dictionary) = 0
           THEN /\ saved' = "ValueError"
                /\ UNCHANGED <<corrupt, level>>
           ELSE /\ saved' = "written"
                /\ corrupt' = SortValues(Project(df, CorruptColumns), "Success 21/20")
                /\ level' = SortValues(Project(df, LevelColumns), "Leveled 20/20")
    /\ UNCHANGED <<dictionary, allocs, returned, hist, callStart>>
    /\ UNCHANGED nameVars

(***************************************************************************)
(* The program: any number of go_over_elements calls, then save_data       *)
(***************************************************************************)
InitAgg ==
    /\ dictionary = <<>>
    /\ allocs = 0
    /\ pc = "idle"
    /\ returned = FALSE
    /\ saved = "no"
    /\ corrupt = <<>>
    /\ level = <<>>
    /\ hist = <<>>
    /\ callStart = 0

Init ==
    /\ InitAgg
    /\ name = ""
    /\ quality = ""
    /\ key = ""
    /\ cpc = "done"

Next ==
    \/ GoOverElementsStart
    \/ ProcessRecord
    \/ GoOverElementsReturn
    \/ SaveData

Spec == Init /\ [][Next]_vars

(***************************************************************************)
(* The classifier and the key normalization on one name                    *)
(***************************************************************************)
InitNames ==
    /\ InitAgg
    /\ name \in NameInputs
    /\ quality = ""
    /\ key = ""
    /\ cpc = "start"

\* quality = gem_quality_type(gem_name)
Classify ==
    /\ cpc = "start"
    /\ quality' = gem_quality_type(name)
    /\ cpc' = "classified"
    /\ UNCHANGED <<name, key>>
    /\ UNCHANGED aggVars

\* The name handed to create_gem_object as the key.
Normalize ==
    /\ cpc = "classified"
    /\ key' = NormalizedName(name, quality)
    /\ cpc' = "done"
    /\ UNCHANGED <<name, quality>>
    /\ UNCHANGED aggVars

NextNames == Classify \/ Normalize

SpecNames == InitNames /\ [][NextNames]_vars

(***************************************************************************)
(* Vocabulary of the properties                                            *)
(***************************************************************************)
HasVaal(n) == Contains(n, "Vaal")
HasAlternative(n) ==
    Contains(n, "Anomalous") \/ Contains(n, "Divergent") \/ Contains(n, "Phantasmal")
HasAwakened(n) == Contains(n, "Awakened")
NoMarker(n) == ~HasVaal(n) /\ ~HasAlternative(n) /\ ~HasAwakened(n)

\* Index of the first occurrence of sub in s (s contains sub).
FirstIndex(s, sub) ==
    CHOOSE i \in 1..(Len(s) - Len(sub) + 1) :
        /\ SubSeq(s, i, i + Len(sub) - 1) = sub
        /\ \A j \in 1..(i - 1) : SubSeq(s, j, j + Len(sub) - 1) # sub

\* s without the first occurrence of sub.
RemoveFirst(s, sub) ==
    IF ~Contains(s, sub) THEN s
    ELSE LET i == FirstIndex(s, sub)
         IN  SubSeq(s, 1, i - 1) \o SubSeq(s, i + Len(sub), Len(s))

\* s without its first occurrence of sub, and likewise for what follows it.
RECURSIVE RemoveEach(_, _)
RemoveEach(s, sub) ==
    IF ~Contains(s, sub) THEN s
    ELSE LET i == FirstIndex(s, sub)
         IN  SubSeq(s, 1, i - 1) \o RemoveEach(SubSeq(s, i + Len(sub), Len(s)), sub)

Category(gem) == gem_quality_type(gem.name)
NormKey(gem) == NormalizedName(gem.name, Category(gem))

\* The rule table: the field a (variant, category) pair selects, "none" if no row.
TableField(variant, category) ==
    CASE variant = "1/20" /\ category = "Basic" -> "basePrice"
      [] variant = "1" /\ category = "Alternative" -> "basePrice"
      [] variant = "1" /\ category = "Awakened" -> "basePrice"
      [] variant = "20/20" -> "leveledPrice"
      [] variant = "20/20c" /\ category # "Vaal" -> "failPrice"
      [] variant = "5/20c" /\ category = "Awakened" -> "failPrice"
      [] variant = "20/20c" /\ category = "Vaal" -> "vaalPrice"
      [] variant = "21/20c" /\ category # "Vaal" -> "successPrice"
      [] variant = "6/20c" /\ category = "Awakened" -> "successPrice"
      [] OTHER -> "none"

FieldOf(gem) == TableField(gem.variant, Category(gem))

MaxOf(S) == CHOOSE m \in S : \A x \in S : x <= m

\* The last processed record with key k that selects field f: <<>> or <<record>>.
LastSel(k, f) ==
    LET S == {i \in DOMAIN hist : NormKey(hist[i]) = k /\ FieldOf(hist[i]) = f}
    IN  IF S = {} THEN <<>> ELSE <<hist[MaxOf(S)]>>

PriceOf(sel) == IF sel = <<>> THEN <<>> ELSE <<sel[1].chaosValue>>

CountOf(sel) ==
    IF sel = <<>> THEN 0
    ELSE IF "listingCount" \in DOMAIN sel[1] THEN sel[1].listingCount ELSE 0

PriceFields == {"base_price", "leveled_price", "fail_price", "vaal_price", "success_price"}

Fresh(obj) ==
    /\ \A f \in PriceFields : obj[f] = <<>>
    /\ obj.listed_leveled = 0
    /\ obj.listed_21_20 = 0

LastGem == hist[Len(hist)]

\* rows are in non-increasing order of col, every missing value after every value
SortedDescNaLast(rows, col) ==
    \A i, j \in DOMAIN rows :
        i < j =>
            /\ rows[i][col] = <<>> => rows[j][col] = <<>>
            /\ (rows[i][col] # <<>> /\ rows[j][col] # <<>>) => rows[i][col][1] >= rows[j][col][1]

(***************************************************************************)
(* Properties of the classifier (under SpecNames)                          *)
(***************************************************************************)
\* C1: gem_quality_type returns the category of the highest-priority marker
\* occurring anywhere in the name, with priority Vaal > Alternative > Awakened,
\* and Basic exactly when the name contains none of the five markers.
C1_PriorityOfMarkers ==
    cpc # "start" =>
        quality = IF HasVaal(name) THEN "Vaal"
                  ELSE IF HasAlternative(name) THEN "Alternative"
                  ELSE IF HasAwakened(name) THEN "Awakened"
                  ELSE "Basic"

C1_Witness ==
    /\ cpc = "done"
    /\ HasVaal(name) /\ HasAwakened(name) /\ ~StartsWith(name, "Vaal")
    /\ quality = "Vaal"

\* C2 as stated: a name containing "Awakened" and not "Vaal" is Awakened, also
\* when it contains an Alternative marker.
C2_AwakenedUnlessVaal ==
    (cpc # "start" /\ HasAwakened(name) /\ ~HasVaal(name)) => quality = "Awakened"

\* C2 amended: a name containing "Awakened" is Awakened exactly when it contains
\* neither "Vaal" nor an Alternative marker; with an Alternative marker and no
\* "Vaal" it is Alternative.
C2_AwakenedUnlessVaalOrAlternative ==
    (cpc # "start" /\ HasAwakened(name)) =>
        /\ quality = "Awakened" <=> (~HasVaal(name) /\ ~HasAlternative(name))
        /\ (~HasVaal(name) /\ HasAlternative(name)) => quality = "Alternative"

C2_Witness ==
    /\ cpc = "done"
    /\ HasAwakened(name) /\ Contains(name, "Anomalous") /\ ~HasVaal(name)
    /\ quality = "Alternative"

\* C9 as stated: for a Vaal-category name the key is the name with only the
\* first occurrence of "Vaal " removed (unchanged if there is none).
C9_FirstOccurrenceOnly ==
    (cpc = "done" /\ quality = "Vaal") => key = RemoveFirst(name, "Vaal ")

\* C9 amended: for a Vaal-category name the key is the name with every
\* occurrence of "Vaal " removed (first occurrence, then likewise in the rest),
\* and a name containing "Vaal" but not "Vaal " is the key unchanged.
C9_EveryOccurrence ==
    (cpc = "done" /\ quality = "Vaal") =>
        /\ key = RemoveEach(name, "Vaal ")
        /\ ~Contains(name, "Vaal ") => key = name

C9_Witness ==
    /\ cpc = "done" /\ quality = "Vaal"
    /\ Contains(RemoveFirst(name, "Vaal "), "Vaal ")
    /\ key = "Haste"

(***************************************************************************)
(* Properties of the aggregation and of the report stage (under Spec)      *)
(***************************************************************************)
\* C3: from an empty mapping, a record 'Vaal ' + B with variant "20/20c" and a
\* record B with variant "1/20" (B without any marker), in either order, yield
\* exactly one GemRecord, keyed B, with vaalPrice the first record's chaosValue
\* and basePrice the second's.
C3_VaalAndBaseShareOneRecord ==
    Len(hist) = 2 =>
        \A v, b \in {1, 2} :
            ( /\ v # b
              /\ NoMarker(hist[b].name) /\ hist[v].name = "Vaal " \o hist[b].name
              /\ hist[v].variant = "20/20c" /\ hist[b].variant = "1/20" )
            => /\ Len(dictionary) = 1
               /\ dictionary[1].key = hist[b].name
               /\ dictionary[1].obj.vaal_price = <<hist[v].chaosValue>>
               /\ dictionary[1].obj.base_price = <<hist[b].chaosValue>>

C3_Witness ==
    /\ Len(hist) = 2
    /\ hist[1].name = "Haste" /\ hist[1].variant = "1/20"
    /\ hist[2].name = "Vaal Haste" /\ hist[2].variant = "20/20c"
    /\ hist[1].chaosValue # hist[2].chaosValue
    /\ Len(dictionary) = 1
    /\ dictionary[1].obj.vaal_price = <<hist[2].chaosValue>>

\* C4: the mapping holds exactly one GemRecord per normalized name processed
\* so far (records that match no rule included); each GemRecord's name is its
\* key; a record whose normalized name is already a key constructs no object
\* and replaces none (the i-th key still holds the i-th object constructed).
C4_OneRecordPerNormalizedName ==
    /\ Keys(dictionary) = {NormKey(hist[i]) : i \in DOMAIN hist}
    /\ Cardinality(Keys(dictionary)) = Len(dictionary)
    /\ allocs = Len(dictionary)
    /\ \A i \in DOMAIN dictionary :
         /\ dictionary[i].obj.name = dictionary[i].key
         /\ dictionary[i].obj.oid = i

C4_Witness ==
    /\ Len(hist) = 2
    /\ FieldOf(hist[1]) = "none"
    /\ FieldOf(hist[2]) # "none"
    /\ hist[1].name # hist[2].name
    /\ NormKey(hist[1]) = NormKey(hist[2])
    /\ Len(dictionary) = 1
    /\ ~Fresh(dictionary[1].obj)

\* C5: each price field of each GemRecord is the chaosValue of the last record
\* in input order with that key whose (variant, category) selects the field in
\* the rule table, absent if there is none; leveledListings and successListings
\* are the listing count of that same record (0 if none).
C5_LastWriteWins ==
    \A i \in DOMAIN dictionary :
        LET k == dictionary[i].key
            obj == dictionary[i].obj
        IN  /\ obj.base_price = PriceOf(LastSel(k, "basePrice"))
            /\ obj.leveled_price = PriceOf(LastSel(k, "leveledPrice"))
            /\ obj.fail_price = PriceOf(LastSel(k, "failPrice"))
            /\ obj.vaal_price = PriceOf(LastSel(k, "vaalPrice"))
            /\ obj.success_price = PriceOf(LastSel(k, "successPrice"))
            /\ obj.listed_leveled = CountOf(LastSel(k, "leveledPrice"))
            /\ obj.listed_21_20 = CountOf(LastSel(k, "successPrice"))

C5_Witness ==
    /\ Len(hist) = 2
    /\ NormKey(hist[1]) = NormKey(hist[2])
    /\ hist[1].variant = "20/20c" /\ hist[2].variant = "5/20c"
    /\ FieldOf(hist[1]) = "failPrice" /\ FieldOf(hist[2]) = "failPrice"
    /\ hist[1].chaosValue # hist[2].chaosValue
    /\ dictionary[1].obj.fail_price = <<hist[2].chaosValue>>

\* C6: processing a record whose (variant, category) matches no row of the rule
\* table leaves every GemRecord already in the mapping unchanged, and the
\* GemRecord it may create has every price absent and both counts 0.
C6_UnmatchedIsNoOp ==
    [][ (Len(hist') = Len(hist) + 1 /\ FieldOf(hist'[Len(hist')]) = "none")
        => /\ Has(dictionary', NormKey(hist'[Len(hist')]))
           /\ \A i \in DOMAIN dictionary : dictionary'[i] = dictionary[i]
           /\ \A i \in DOMAIN dictionary' \ DOMAIN dictionary : Fresh(dictionary'[i].obj)
      ]_vars

C6_Witness ==
    /\ Len(hist) = 2
    /\ FieldOf(hist[1]) = "vaalPrice"
    /\ hist[2].name = "Vaal Haste" /\ hist[2].variant = "1/20"
    /\ Len(dictionary) = 1
    /\ dictionary[1].obj.vaal_price = <<hist[1].chaosValue>>
    /\ dictionary[1].obj.base_price = <<>>

\* C7: a record without listingCount is processed as if listingCount were 0:
\* matching the "20/20" rule it sets leveledListings to 0, matching a success
\* rule it sets successListings to 0, whatever the count was before.
C7_MissingListingCountIsZero ==
    (hist # <<>> /\ "listingCount" \notin DOMAIN LastGem) =>
        /\ Has(dictionary, NormKey(LastGem))
        /\ FieldOf(LastGem) = "leveledPrice" =>
              /\ Get(dictionary, NormKey(LastGem)).listed_leveled = 0
              /\ Get(dictionary, NormKey(LastGem)).leveled_price = <<LastGem.chaosValue>>
        /\ FieldOf(LastGem) = "successPrice" =>
              /\ Get(dictionary, NormKey(LastGem)).listed_21_20 = 0
              /\ Get(dictionary, NormKey(LastGem)).success_price = <<LastGem.chaosValue>>

C7_Witness ==
    /\ Len(hist) = 2
    /\ NormKey(hist[1]) = NormKey(hist[2])
    /\ hist[1].variant = "21/20c" /\ hist[2].variant = "6/20c"
    /\ FieldOf(hist[1]) = "successPrice" /\ FieldOf(hist[2]) = "successPrice"
    /\ "listingCount" \in DOMAIN hist[1] /\ hist[1].listingCount > 0
    /\ "listingCount" \notin DOMAIN hist[2]
    /\ dictionary[1].obj.listed_21_20 = 0

\* C8: save_data on a mapping of N GemRecords writes a CorruptReport and a
\* LevelReport of exactly N rows each, one per GemRecord, in non-increasing
\* order of successPrice and of leveledPrice, absent values last.
C8_ReportsHaveEveryRecordSorted ==
    pc = "done" =>
        /\ saved = "written"
        /\ Len(corrupt) = Len(dictionary)
        /\ Len(level) = Len(dictionary)
        /\ {corrupt[i]["Gem Name"] : i \in DOMAIN corrupt} = Keys(dictionary)
        /\ {level[i]["Gem Name"] : i \in DOMAIN level} = Keys(dictionary)
        /\ SortedDescNaLast(corrupt, "Success 21/20")
        /\ SortedDescNaLast(level, "Leveled 20/20")

\* The same for a mapping that holds at least one GemRecord.
ReportsOfNonEmptyMapping ==
    (pc = "done" /\ Len(dictionary) > 0) =>
        /\ saved = "written"
        /\ Len(corrupt) = Len(dictionary)
        /\ Len(level) = Len(dictionary)
        /\ {corrupt[i]["Gem Name"] : i \in DOMAIN corrupt} = Keys(dictionary)
        /\ {level[i]["Gem Name"] : i \in DOMAIN level} = Keys(dictionary)
        /\ SortedDescNaLast(corrupt, "Success 21/20")
        /\ SortedDescNaLast(level, "Leveled 20/20")

\* C10: the registry only grows: no step removes or moves a key or turns a set
\* price back to absent, across records and across go_over_elements calls.
C10_RegistryOnlyGrows ==
    [][ \A i \in DOMAIN dictionary :
          /\ i \in DOMAIN dictionary'
          /\ dictionary'[i].key = dictionary[i].key
          /\ \A f \in PriceFields :
               dictionary[i].obj[f] # <<>> => dictionary'[i].obj[f] # <<>>
      ]_vars

C10_Witness ==
    /\ pc = "idle" /\ returned
    /\ callStart = 1 /\ Len(hist) = 2
    /\ NormKey(hist[1]) = NormKey(hist[2])
    /\ FieldOf(hist[1]) = "basePrice" /\ FieldOf(hist[2]) = "none"
    /\ Len(dictionary) = 1
    /\ dictionary[1].obj.base_price = <<hist[1].chaosValue>>

====
